---- MODULE Spec2Model ----
(***************************************************************************)
(* Model of projector_core.cpp: project_ray_to_voxels, the single-ray      *)
(* voxel accumulation kernel exposed to Python as project_ray.             *)
(*                                                                         *)
(* Number representation                                                   *)
(*  - a C++ double is an extended rational <<n, d>>: d > 0 is the finite   *)
(*    value n/d in lowest terms, <<1,0>> is +Inf, <<-1,0>> is -Inf and     *)
(*    <<0,0>> is NaN.  Finite arithmetic is exact (the 53-bit rounding of  *)
(*    a double is not modelled, and std::tan of 45 degrees is 1); the      *)
(*    special values follow IEEE 754.                                      *)
(*  - a C++ float (a voxel value, brightness) is a natural number of       *)
(*    units of its last place; every addition is rounded to 24             *)
(*    significant bits, ties to even, as IEEE 754 single precision does.   *)
(*  - static_cast<int> of a double truncates toward zero; of a NaN or an   *)
(*    infinity it is undefined behaviour, modelled by the variable build   *)
(*    that fixes which of the outcomes of the common targets is produced.  *)
(***************************************************************************)
EXTENDS Integers, Sequences, FiniteSets, TLC

VARIABLES
    params,        \* the arguments of the current call of project_ray
    build,         \* what the build's double -> int conversion does on NaN/Inf
    voxel_grid,    \* the numpy buffer: voxel index triple -> float (cells never written hold 0)
    pc,            \* position of the sequential caller: "idle", "march", "done"
    ray_world_dir, \* local: the ray direction (three doubles)
    ray_origin,    \* local: the ray origin (three doubles)
    i,             \* local: the loop counter
    cell,          \* locals of the last loop body: current_point, ix, iy, iz, and whether it wrote
    calls,         \* number of calls started so far
    grid_before,   \* history: the grid when the current call started
    params_first,  \* history: the arguments of the first call
    tpc,           \* concurrent callers: each thread's position
    ti,            \* concurrent callers: each thread's loop counter
    treg           \* concurrent callers: the value each thread loaded for its pending +=

vars == <<params, build, voxel_grid, pc, ray_world_dir, ray_origin, i, cell,
          calls, grid_before, params_first, tpc, ti, treg>>

----------------------------------------------------------------------------
(* Integer helpers *)

Abs(n) == IF n < 0 THEN -n ELSE n

Sgn(n) == IF n < 0 THEN -1 ELSE IF n > 0 THEN 1 ELSE 0

RECURSIVE GCD(_, _)
GCD(a, b) == IF b = 0 THEN a ELSE GCD(b, a % b)

\* Quotient rounded toward zero, as C++ integer conversion rounds.
TruncDiv(n, d) == IF n >= 0 THEN n \div d ELSE -((-n) \div d)

\* Quotient rounded toward minus infinity (d > 0).
FloorDiv(n, d) == n \div d

INT_MAX == 2147483647

INT_MIN == -2147483647 - 1

----------------------------------------------------------------------------
(* double: extended rationals *)

NaN == <<0, 0>>

PosInf == <<1, 0>>

NegInf == <<-1, 0>>

\* The double with value n/d, in canonical form.
Q(n, d) ==
    IF d = 0 THEN <<Sgn(n), 0>>
    ELSE LET g == GCD(Abs(n), Abs(d))
             s == IF d < 0 THEN -1 ELSE 1
         IN  <<(s * n) \div g, (s * d) \div g>>

R(n) == <<n, 1>>

IsFinite(a) == a[2] # 0

IsNaN(a) == a = NaN

DMul(a, b) == Q(a[1] * b[1], a[2] * b[2])

\* a / b; the sign of a zero divisor is taken as positive.
DDiv(a, b) ==
    IF b[1] < 0 THEN Q(-(a[1] * b[2]), -(a[2] * b[1]))
    ELSE Q(a[1] * b[2], a[2] * b[1])

DAdd(a, b) ==
    IF IsFinite(a) /\ IsFinite(b) THEN Q(a[1] * b[2] + b[1] * a[2], a[2] * b[2])
    ELSE IF IsNaN(a) \/ IsNaN(b) THEN NaN
    ELSE IF IsFinite(a) THEN b
    ELSE IF IsFinite(b) THEN a
    ELSE IF a = b THEN a ELSE NaN

DNeg(a) == <<-a[1], a[2]>>

DSub(a, b) == DAdd(a, DNeg(b))

\* a > b as the C++ comparison: false when either is NaN.
DGreater(a, b) ==
    /\ ~IsNaN(a) /\ ~IsNaN(b)
    /\ IF IsFinite(a) /\ IsFinite(b) THEN a[1] * b[2] > b[1] * a[2]
       ELSE IF IsFinite(a) THEN b = NegInf
       ELSE IF IsFinite(b) THEN a = PosInf
       ELSE a = PosInf /\ b = NegInf

DLess(a, b) == DGreater(b, a)

IsSquare(n) == \E r \in 0..n : r * r = n

ISqrt(n) == CHOOSE r \in 0..n : r * r = n

\* Whether std::sqrt(a) is modelled: the root of a finite a is rational.
HasSqrt(a) == IsFinite(a) => (a[1] >= 0 /\ IsSquare(a[1]) /\ IsSquare(a[2]))

\* std::sqrt
DSqrt(a) ==
    IF IsNaN(a) \/ a = NegInf THEN NaN
    ELSE IF a = PosInf THEN PosInf
    ELSE Q(ISqrt(a[1]), ISqrt(a[2]))

----------------------------------------------------------------------------
(* float: single precision accumulation *)

\* Number of low bits a positive integer n loses when kept to 24 significant bits.
RECURSIVE Excess(_)
Excess(n) == IF n < 16777216 THEN 0 ELSE 1 + Excess(n \div 2)

\* n rounded to 24 significant bits, ties to even (IEEE 754 binary32, n >= 0).
Round24(n) ==
    LET sh   == Excess(n)
        unit == 2 ^ sh
        q    == n \div unit
        r    == n % unit
        up   == (2 * r > unit) \/ (2 * r = unit /\ q % 2 = 1)
    IN  IF sh = 0 THEN n ELSE (q + (IF up THEN 1 ELSE 0)) * unit

\* a + b in float arithmetic.
FloatAdd(a, b) == Round24(a + b)

\* The fault "store the brightness" instead of adding it.
Accumulate_overwrite(old, brightness) == brightness

\* The fault "keep the maximum" instead of adding.
Accumulate_max(old, brightness) == IF old > brightness THEN old ELSE brightness

\* voxel_grid(ix, iy, iz) += brightness : the value stored, from the value read.
Accumulate(old, brightness) == FloatAdd(old, brightness)

\* k successive float additions of b to v >= 0.  The count is split in
\* halves and the first half's sum is compared before the second half is
\* added, so that it is computed first and the evaluation stays shallow.
RECURSIVE FloatAddN(_, _, _)
FloatAddN(v, b, k) ==
    IF k = 0 THEN v
    ELSE IF k = 1 THEN FloatAdd(v, b)
    ELSE LET h == FloatAddN(v, b, k \div 2)
         IN  IF h >= 0 THEN FloatAddN(h, b, k - (k \div 2)) ELSE h

----------------------------------------------------------------------------
(* 1. Ray direction *)

\* std::tan(fov_rad / 2.0) for the fields of view of the model.
TanHalfFov(fov_degrees) ==
    CASE fov_degrees = 0  -> R(0)
      [] fov_degrees = 90 -> R(1)

\* The fault "focal length from the image height".
FocalLength_height(p) == DDiv(DDiv(R(p.img_h), R(2)), TanHalfFov(p.fov_degrees))

\* focal_length = (img_w / 2.0) / tan(fov_rad / 2.0)
FocalLength(p) == DDiv(DDiv(R(p.img_w), R(2)), TanHalfFov(p.fov_degrees))

\* ray_cam before normalisation
RayCam(p) ==
    <<DSub(R(p.p_x), DDiv(R(p.img_w), R(2))),
      DSub(R(p.p_y), DDiv(R(p.img_h), R(2))),
      DNeg(FocalLength(p))>>

NormSquared(v) == DAdd(DAdd(DMul(v[1], v[1]), DMul(v[2], v[2])), DMul(v[3], v[3]))

\* norm = std::sqrt(x*x + y*y + z*z)
Norm(v) == DSqrt(NormSquared(v))

NormEpsilon == Q(1, 1000000)

\* if (norm > 1e-6) { ray_cam /= norm }
Normalise(v) ==
    LET norm == Norm(v)
    IN  IF DGreater(norm, NormEpsilon)
        THEN <<DDiv(v[1], norm), DDiv(v[2], norm), DDiv(v[3], norm)>>
        ELSE v

\* ray_world_dir = ray_cam (camera space is world space)
RayWorldDir(p) == Normalise(RayCam(p))

\* ray_origin = {cam_pos_x, cam_pos_y, cam_pos_z}
RayOrigin(p) == p.cam_pos

----------------------------------------------------------------------------
(* 2. Ray marching *)

\* int step_count = 500
step_count == 500

GridHalfSize(p) == DDiv(R(p.grid_world_size), R(2))

\* t_max = grid_world_size * 2.0
TMax(p) == DMul(R(p.grid_world_size), R(2))

\* step_size = t_max / step_count
StepSize(p) == DDiv(TMax(p), R(step_count))

\* current_point at loop index k: origin + (k * step_size) * direction
CurrentPoint(p, origin, dir, k) ==
    LET t == DMul(R(k), StepSize(p))
    IN  [a \in 1..3 |-> DAdd(origin[a], DMul(t, dir[a]))]

\* ((coord + grid_half_size) / grid_world_size) * grid_size, before the conversion
Scaled(p, coord) ==
    DMul(DDiv(DAdd(coord, GridHalfSize(p)), R(p.grid_world_size)), R(p.grid_size))

Builds == {"indefinite", "saturating"}

\* static_cast<int>(a).  A finite value is truncated toward zero.  NaN and the
\* infinities are undefined behaviour: the "indefinite" build (x86 cvttsd2si)
\* yields INT_MIN, the "saturating" build (AArch64 fcvtzs) yields 0 for NaN
\* and the nearest int for an infinity.
CastInt(a, bld) ==
    IF IsFinite(a) THEN TruncDiv(a[1], a[2])
    ELSE IF bld = "indefinite" THEN INT_MIN
    ELSE IF IsNaN(a) THEN 0
    ELSE IF a = PosInf THEN INT_MAX ELSE INT_MIN

\* The fault "floor instead of truncation".
VoxelIndex_floor(p, coord, bld) ==
    LET s == Scaled(p, coord)
    IN  IF IsFinite(s) THEN FloorDiv(s[1], s[2]) ELSE CastInt(s, bld)

\* ix = static_cast<int>(((current_point.x + grid_half_size) / grid_world_size) * grid_size)
VoxelIndex(p, coord, bld) == CastInt(Scaled(p, coord), bld)

\* The fault "<=" for "<" in the upper bound of the first axis.
InBounds_inclusive(ix, iy, iz, grid_size) ==
    /\ ix >= 0 /\ ix <= grid_size
    /\ iy >= 0 /\ iy < grid_size
    /\ iz >= 0 /\ iz < grid_size

\* if (ix >= 0 && ix < grid_size && iy >= 0 && iy < grid_size && iz >= 0 && iz < grid_size)
InBounds(ix, iy, iz, grid_size) ==
    /\ ix >= 0 /\ ix < grid_size
    /\ iy >= 0 /\ iy < grid_size
    /\ iz >= 0 /\ iz < grid_size

\* The voxel of the sample at loop index k.
SampleVoxel(p, origin, dir, k, bld) ==
    LET pt == CurrentPoint(p, origin, dir, k)
    IN  <<VoxelIndex(p, pt[1], bld), VoxelIndex(p, pt[2], bld), VoxelIndex(p, pt[3], bld)>>

\* voxel_grid(ix, iy, iz) read through the unchecked accessor
Cell(g, v) == IF v \in DOMAIN g THEN g[v] ELSE 0

\* voxel_grid(ix, iy, iz) = x through the unchecked accessor
Store(g, v, x) == [w \in DOMAIN g \cup {v} |-> IF w = v THEN x ELSE g[w]]

\* The fault "stop marching at the first out-of-range sample".
NextIndex_break(k, hit) == IF hit THEN k + 1 ELSE step_count

\* ++i : the loop has no break, whether or not the sample was in range
NextIndex(k, hit) == k + 1

----------------------------------------------------------------------------
(* The calls of the model *)

\* Bound: how many times the driver calls project_ray on the grid.
MaxCalls == 2

\* Pixel, image size and field of view: the camera-space ray is
\* (p_x - img_w/2, p_y - img_h/2, -focal_length).
View(p_x, p_y, img_w, img_h, fov_degrees) ==
    [p_x |-> p_x, p_y |-> p_y, img_w |-> img_w, img_h |-> img_h,
     fov_degrees |-> fov_degrees]

ViewAxis == View(1, 1, 2, 2, 90)     \* the principal point: direction (0, 0, -1)

ViewDiagonal == View(3, 4, 4, 4, 90) \* direction (1, 2, -2) / 3

ViewPlaneX == View(1, 1, 0, 2, 90)   \* img_w = 0: direction (1, 0, 0)

ViewZero == View(0, 1, 0, 2, 90)     \* img_w = 0 at the principal point: direction (0, 0, 0)

ViewFovZero == View(1, 1, 2, 2, 0)   \* fov = 0: infinite focal length

Centre == <<R(0), R(0), R(0)>>       \* the grid centre

NearFace == <<R(492), R(0), R(0)>>   \* inside, near the x = +half face

CamPositions ==
    { Centre, NearFace,
      <<R(0), R(0), R(800)>>,         \* outside, looking into the grid
      <<R(-600), R(0), R(0)>>,        \* outside, beside the x = -half face
      <<R(3000), R(3000), R(3000)>> } \* far outside

\* 2^20 + 1: a brightness whose sums need more than 24 bits from the 17th on.
BrightnessOdd == 2 ^ 20 + 1

\* grid_size, grid_world_size, brightness
GridSetups ==
    { <<4, 1000, 1>>, <<5, 1000, BrightnessOdd>>, <<256, 1000, 1>> }

Config(v, cam, g) ==
    [p_x |-> v.p_x, p_y |-> v.p_y, cam_pos |-> cam,
     img_w |-> v.img_w, img_h |-> v.img_h, fov_degrees |-> v.fov_degrees,
     grid_size |-> g[1], grid_world_size |-> g[2], brightness |-> g[3]]

\* The argument lists of the model; the norm of each has a rational square root.
Configs ==
    { c \in
        { Config(v, cam, g) :
            v \in {ViewAxis, ViewDiagonal}, cam \in CamPositions, g \in GridSetups }
        \cup
        { Config(v, cam, g) :
            v \in {ViewPlaneX, ViewZero}, cam \in {Centre, NearFace},
            g \in {<<4, 1000, 1>>, <<5, 1000, BrightnessOdd>>} }
        \cup
        { Config(ViewFovZero, Centre, <<4, 1000, 1>>) } :
        HasSqrt(NormSquared(RayCam(c))) }

NoParams == Config(View(0, 0, 0, 0, 90), <<R(0), R(0), R(0)>>, <<1, 1, 0>>)

NoCell == [point |-> <<R(0), R(0), R(0)>>, ix |-> 0, iy |-> 0, iz |-> 0, wrote |-> FALSE]

EmptyGrid == [v \in {} |-> 0]

Threads == {1, 2}

----------------------------------------------------------------------------
(* Sequential calls *)

Init ==
    /\ params = NoParams
    /\ build \in Builds
    /\ voxel_grid = EmptyGrid
    /\ pc = "idle"
    /\ ray_world_dir = <<R(0), R(0), R(0)>>
    /\ ray_origin = <<R(0), R(0), R(0)>>
    /\ i = 0
    /\ cell = NoCell
    /\ calls = 0
    /\ grid_before = EmptyGrid
    /\ params_first = NoParams
    /\ tpc = [t \in Threads |-> "idle"]
    /\ ti = [t \in Threads |-> 0]
    /\ treg = [t \in Threads |-> 0]

\* Entry of project_ray_to_voxels up to the loop: the ray is computed.
Enter(c) ==
    /\ params' = c
    /\ ray_world_dir' = RayWorldDir(c)
    /\ ray_origin' = RayOrigin(c)
    /\ i' = 0
    /\ cell' = NoCell
    /\ pc' = "march"
    /\ calls' = calls + 1
    /\ grid_before' = voxel_grid
    /\ UNCHANGED <<build, voxel_grid, tpc, ti, treg>>

\* The driver's first call, on the zero-initialised grid.
Call(c) ==
    /\ pc = "idle"
    /\ calls < MaxCalls
    /\ params_first' = c
    /\ Enter(c)

\* The driver calls again with identical parameters.
CallAgain ==
    /\ pc = "done"
    /\ calls < MaxCalls
    /\ UNCHANGED params_first
    /\ Enter(params)

\* One execution of the loop body, and ++i.
Iterate ==
    /\ pc = "march"
    /\ i < step_count
    /\ LET pt  == CurrentPoint(params, ray_origin, ray_world_dir, i)
           ix  == VoxelIndex(params, pt[1], build)
           iy  == VoxelIndex(params, pt[2], build)
           iz  == VoxelIndex(params, pt[3], build)
           hit == InBounds(ix, iy, iz, params.grid_size)
       IN  /\ voxel_grid' =
                IF hit
                THEN Store(voxel_grid, <<ix, iy, iz>>,
                           Accumulate(Cell(voxel_grid, <<ix, iy, iz>>), params.brightness))
                ELSE voxel_grid
           /\ cell' = [point |-> pt, ix |-> ix, iy |-> iy, iz |-> iz, wrote |-> hit]
           /\ i' = NextIndex(i, hit)
    /\ UNCHANGED <<params, build, pc, ray_world_dir, ray_origin, calls, grid_before,
                   params_first, tpc, ti, treg>>

\* The loop condition fails: the function returns.
Return ==
    /\ pc = "march"
    /\ ~(i < step_count)
    /\ pc' = "done"
    /\ UNCHANGED <<params, build, voxel_grid, ray_world_dir, ray_origin, i, cell, calls,
                   grid_before, params_first, tpc, ti, treg>>

Next ==
    \/ \E c \in Configs : Call(c)
    \/ CallAgain
    \/ Iterate
    \/ Return

Spec == Init /\ [][Next]_vars

----------------------------------------------------------------------------
(* Two concurrent calls on the same grid *)

\* The arguments both concurrent calls are given: direction (1, 0, 0) from
\* (488, 0, 0), whose first three samples fall in voxel (3, 2, 2) and whose
\* later samples are out of range.
ConcConfigs ==
    { Config(View(1, 1, 0, 2, 90), <<R(x), R(0), R(0)>>, <<4, 1000, 1>>) : x \in {488} }

\* The fault-free alternative the source names: an atomic add, which adds to
\* the value the voxel holds at the time of the store.
StoreValue_atomic(loaded, current, brightness) == Accumulate(current, brightness)

\* The value "+=" stores: computed from the value loaded earlier, whatever
\* the voxel holds by now.
StoreValue(loaded, current, brightness) == Accumulate(loaded, brightness)

\* The voxel of thread t's current sample.
ThreadVoxel(t) == SampleVoxel(params, ray_origin, ray_world_dir, ti[t], build)

ConcInit ==
    /\ params \in ConcConfigs
    /\ build = "indefinite"
    /\ voxel_grid = EmptyGrid
    /\ pc = "idle"
    /\ ray_world_dir = RayWorldDir(params)
    /\ ray_origin = RayOrigin(params)
    /\ i = 0
    /\ cell = NoCell
    /\ calls = 0
    /\ grid_before = EmptyGrid
    /\ params_first = params
    /\ tpc = [t \in Threads |-> "loop"]
    /\ ti = [t \in Threads |-> 0]
    /\ treg = [t \in Threads |-> 0]

seqvars == <<params, build, pc, ray_world_dir, ray_origin, i, cell, calls, grid_before,
             params_first>>

ThreadHit(t, k) ==
    LET v == SampleVoxel(params, ray_origin, ray_world_dir, k, build)
    IN  InBounds(v[1], v[2], v[3], params.grid_size)

\* The loop index thread t reaches from k by passing over out-of-range
\* samples: these iterations touch no shared memory.
SkipRun(t, k) ==
    LET later == {j \in k..(step_count - 1) : ThreadHit(t, j)}
    IN  IF later = {} THEN step_count
        ELSE CHOOSE j \in later : \A m \in later : j <= m

\* Thread t's sample is in range: it reads the voxel (the first half of "+=").
TLoad(t) ==
    /\ tpc[t] = "loop"
    /\ ti[t] < step_count
    /\ ThreadHit(t, ti[t])
    /\ treg' = [treg EXCEPT ![t] = Cell(voxel_grid, ThreadVoxel(t))]
    /\ tpc' = [tpc EXCEPT ![t] = "store"]
    /\ UNCHANGED <<ti, voxel_grid, seqvars>>

\* Thread t's sample is out of range: it runs the iterations up to its next
\* sample in range, or to the end of the loop.
TSkip(t) ==
    /\ tpc[t] = "loop"
    /\ ti[t] < step_count
    /\ ~ThreadHit(t, ti[t])
    /\ ti' = [ti EXCEPT ![t] = SkipRun(t, ti[t])]
    /\ UNCHANGED <<treg, tpc, voxel_grid, seqvars>>

\* Thread t writes the sum back (the second half of "+="), then ++i.
TStore(t) ==
    /\ tpc[t] = "store"
    /\ LET v == ThreadVoxel(t)
       IN  voxel_grid' = Store(voxel_grid, v,
                               StoreValue(treg[t], Cell(voxel_grid, v), params.brightness))
    /\ ti' = [ti EXCEPT ![t] = NextIndex(ti[t], TRUE)]
    /\ tpc' = [tpc EXCEPT ![t] = "loop"]
    /\ UNCHANGED <<treg, seqvars>>

\* Thread t's loop condition fails: its call returns.
TReturn(t) ==
    /\ tpc[t] = "loop"
    /\ ~(ti[t] < step_count)
    /\ tpc' = [tpc EXCEPT ![t] = "done"]
    /\ UNCHANGED <<ti, treg, voxel_grid, seqvars>>

ConcNext == \E t \in Threads : TLoad(t) \/ TSkip(t) \/ TStore(t) \/ TReturn(t)

ConcSpec == ConcInit /\ [][ConcNext]_vars

----------------------------------------------------------------------------
(* What a call samples *)

\* The voxel indices of the 500 samples of the current call.
Samples == [k \in 0..499 |-> SampleVoxel(params, ray_origin, ray_world_dir, k, build)]

InGrid(v, grid_size) == \A a \in 1..3 : v[a] >= 0 /\ v[a] < grid_size

\* How many samples map to voxel v of the grid.
HitsOf(S, v) == Cardinality({k \in DOMAIN S : S[k] = v})

\* The voxels some sample maps to, indices in range.
Sampled(S, grid_size) == {v \in {S[k] : k \in DOMAIN S} : InGrid(v, grid_size)}

\* The cells that hold, or held at the start of the call, a written value.
Written == DOMAIN voxel_grid \cup DOMAIN grid_before

\* A point with a coordinate outside [-grid_world_size/2, grid_world_size/2].
PointOutside(p, pt) ==
    \E a \in 1..3 : \/ DLess(pt[a], DNeg(GridHalfSize(p)))
                    \/ DGreater(pt[a], GridHalfSize(p))

FiniteVec(v) == \A a \in 1..3 : IsFinite(v[a])

VoxelSize(p) == DDiv(R(p.grid_world_size), R(p.grid_size))

\* World coordinate of the low face of index n on an axis.
LowFace(p, n) == DSub(DMul(R(n), VoxelSize(p)), GridHalfSize(p))

\* World coordinates of the centre of voxel v.
VoxelCentre(p, v) == [a \in 1..3 |-> DAdd(LowFace(p, v[a]), DDiv(VoxelSize(p), R(2)))]

\* The ray from the origin of the world with direction dir passes through point c.
PointsAt(dir, c) ==
    /\ \A a \in 1..3 : \A b \in 1..3 : DMul(c[a], dir[b]) = DMul(c[b], dir[a])
    /\ DGreater(DAdd(DAdd(DMul(c[1], dir[1]), DMul(c[2], dir[2])), DMul(c[3], dir[3])), R(0))

----------------------------------------------------------------------------
(* C1 *)

\* C1: no write of project_ray occurs at an index < 0 or >= grid_size on any
\* axis: every cell of the buffer that was ever written has its three indices
\* in 0 .. grid_size - 1, and so has the cell the last loop body wrote.
C1_WritesInRange ==
    /\ \A v \in DOMAIN voxel_grid : InGrid(v, params.grid_size)
    /\ cell.wrote => InGrid(<<cell.ix, cell.iy, cell.iz>>, params.grid_size)

\* A sample whose x index is >= grid_size has just been skipped, after writes.
C1_Witness ==
    /\ pc = "march" /\ i > 0
    /\ ~cell.wrote /\ cell.ix >= params.grid_size
    /\ DOMAIN voxel_grid # {}

----------------------------------------------------------------------------
(* C2 *)

AllSamplesOutside ==
    \A k \in 0..499 : PointOutside(params, CurrentPoint(params, ray_origin, ray_world_dir, k))

\* C2: a ray all of whose 500 sampled points lie outside the cube
\* [-grid_world_size/2, grid_world_size/2]^3 leaves the grid unmodified.
C2_OutsideRayLeavesGrid ==
    (pc = "done" /\ FiniteVec(ray_world_dir) /\ AllSamplesOutside) => voxel_grid = grid_before

----------------------------------------------------------------------------
(* C3 *)

Interior(v, grid_size) == \A a \in 1..3 : v[a] >= 1 /\ v[a] <= grid_size - 2

\* C3: a ray from the grid centre that points at the centre of an interior
\* voxel which the sampling resolves (at least one sample falls in it) leaves
\* that voxel incremented by exactly brightness, once, and every voxel no
\* sample falls in unchanged.
C3_TargetGetsBrightnessOnce ==
    (pc = "done" /\ params.cam_pos = Centre /\ FiniteVec(ray_world_dir)) =>
        LET S == Samples
        IN  /\ \A v \in DOMAIN voxel_grid :
                 ( /\ Interior(v, params.grid_size)
                   /\ PointsAt(ray_world_dir, VoxelCentre(params, v))
                   /\ HitsOf(S, v) >= 1 )
                 => voxel_grid[v] = FloatAdd(Cell(grid_before, v), params.brightness)
            /\ \A v \in Written : HitsOf(S, v) = 0 => Cell(voxel_grid, v) = Cell(grid_before, v)

----------------------------------------------------------------------------
(* C4 *)

SecondCallDone == pc = "done" /\ calls = 2

\* C4 as stated: after two calls with identical parameters on a zeroed grid
\* every voxel holds exactly double what it held after the first call.
C4_TwiceIsExactlyDouble ==
    SecondCallDone => \A v \in Written : Cell(voxel_grid, v) = 2 * Cell(grid_before, v)

\* None of the first n additions of b to zero rounds.
NoRounding(b, n) == \A j \in 1..n : Round24(j * b) = j * b

\* C4 as amended: after two calls with identical parameters on a zeroed grid,
\* a voxel hit by k samples of the ray holds the result of 2k successive
\* single-precision additions of brightness to zero; that is exactly double
\* its value after the first call whenever none of the 2k additions rounds;
\* the voxels no sample hits are still zero.
C4_TwiceIsTwoKAdditions ==
    SecondCallDone =>
        LET S == Samples
            b == params.brightness
        IN  \A v \in Written \cup Sampled(S, params.grid_size) :
              LET k == HitsOf(S, v)
              IN  /\ Cell(voxel_grid, v) = FloatAddN(0, b, 2 * k)
                  /\ NoRounding(b, 2 * k) => Cell(voxel_grid, v) = 2 * Cell(grid_before, v)
                  /\ k = 0 => Cell(voxel_grid, v) = 0

\* The second call is done and a voxel the ray hits is not double its
\* single-call value.
C4_Witness ==
    /\ SecondCallDone
    /\ \E v \in DOMAIN voxel_grid :
         /\ HitsOf(Samples, v) >= 1
         /\ voxel_grid[v] # 2 * Cell(grid_before, v)

----------------------------------------------------------------------------
(* C5: checked under ConcSpec *)

\* C5: the two concurrent calls' additions to a common voxel are not
\* serialized: whatever the other call has stored since this call's load,
\* the store writes the loaded value plus brightness.
C5_StoreUsesLoadedValue ==
    [][ \A t \in Threads :
          (tpc[t] = "store" /\ tpc'[t] = "loop")
          => Cell(voxel_grid', ThreadVoxel(t)) = FloatAdd(treg[t], params.brightness) ]_vars

\* Both calls have returned and a voxel holds less than the zero it started
\* from plus both calls' contributions: an update was lost.
C5_LostUpdate ==
    /\ \A t \in Threads : tpc[t] = "done"
    /\ \E v \in DOMAIN voxel_grid :
         voxel_grid[v] < 2 * HitsOf(Samples, v) * params.brightness

----------------------------------------------------------------------------
(* C6 *)

ZeroWidthCall ==
    pc # "idle" /\ params.img_w = 0 /\ params.fov_degrees > 0 /\ params.fov_degrees < 180

\* C6 as stated: with img_w = 0 and 0 < fov < 180 the focal length is not
\* finite, every sample fails the bounds check and the grid is unmodified.
C6_ZeroWidthLeavesGrid ==
    (ZeroWidthCall /\ pc = "done") =>
        /\ ~IsFinite(FocalLength(params))
        /\ Sampled(Samples, params.grid_size) = {}
        /\ voxel_grid = grid_before

\* C6 as amended: with img_w = 0 and 0 < fov < 180 the focal length is zero,
\* which is finite; the ray has no z component, so every sample has the z
\* coordinate of the camera; the samples whose indices are in range pass the
\* bounds check and their voxels are written, and only a call none of whose
\* samples is in range writes nothing.
C6_ZeroWidthRayInCameraPlane ==
    ZeroWidthCall =>
        /\ FocalLength(params) = R(0)
        /\ ray_world_dir[3] = R(0)
        /\ i > 0 => cell.point[3] = params.cam_pos[3]
        /\ pc = "done" =>
             DOMAIN voxel_grid = DOMAIN grid_before \cup Sampled(Samples, params.grid_size)

\* A call with img_w = 0 has returned and has modified the grid.
C6_Witness == ZeroWidthCall /\ pc = "done" /\ voxel_grid # grid_before

----------------------------------------------------------------------------
(* C7 *)

\* C7 as stated: after a call every voxel holds its previous value plus
\* brightness times the number of samples that map to it.
C7_AddsHitsTimesBrightness ==
    pc = "done" =>
        LET S == Samples
        IN  \A v \in Written \cup Sampled(S, params.grid_size) :
              Cell(voxel_grid, v) = Cell(grid_before, v) + HitsOf(S, v) * params.brightness

\* C7 as amended: after a call every voxel holds the result of k successive
\* single-precision additions of brightness to its previous value, k the
\* number of samples that map to it: previous + k * brightness when no
\* addition rounds, the previous value when k = 0; it is never overwritten
\* or set to a maximum.
C7_AddsBrightnessPerHit ==
    pc = "done" =>
        LET S == Samples
        IN  \A v \in Written \cup Sampled(S, params.grid_size) :
              LET k == HitsOf(S, v)
              IN  Cell(voxel_grid, v) = FloatAddN(Cell(grid_before, v), params.brightness, k)

\* A call has returned with a voxel hit by several samples whose sum was
\* rounded, on a grid that was not zero when the call started.
C7_Witness ==
    /\ pc = "done" /\ grid_before # EmptyGrid
    /\ \E v \in DOMAIN voxel_grid :
         /\ HitsOf(Samples, v) >= 2
         /\ voxel_grid[v] # Cell(grid_before, v) + HitsOf(Samples, v) * params.brightness

----------------------------------------------------------------------------
(* C8 *)

\* C8: a call returns after exactly 500 loop iterations: the counter goes up
\* by one per loop body, each body computes the sample of its own index, the
\* call returns at 500, and every sample whose indices are in range has been
\* accumulated, also one that follows out-of-range samples.
C8_RunsAllSteps ==
    /\ pc = "march" => i \in 0..500
    /\ (pc # "idle" /\ i > 0) =>
          cell.point = CurrentPoint(params, ray_origin, ray_world_dir, i - 1)
    /\ pc = "done" =>
          /\ i = 500
          /\ \A v \in Sampled(Samples, params.grid_size) :
                v \in DOMAIN voxel_grid /\ voxel_grid[v] > Cell(grid_before, v)

\* A call has returned that accumulated a sample in range which came after
\* an out-of-range sample.
C8_Witness ==
    /\ pc = "done"
    /\ \E k \in 1..499 :
         /\ ~InGrid(Samples[k - 1], params.grid_size)
         /\ InGrid(Samples[k], params.grid_size)
         /\ Cell(voxel_grid, Samples[k]) > Cell(grid_before, Samples[k])

----------------------------------------------------------------------------
(* C9 *)

LastIndex == <<cell.ix, cell.iy, cell.iz>>

\* A coordinate below -grid_world_size/2 by less than one voxel width.
JustBelowGrid(p, c) ==
    /\ DLess(c, DNeg(GridHalfSize(p)))
    /\ DGreater(c, DSub(DNeg(GridHalfSize(p)), VoxelSize(p)))

\* A coordinate inside the grid extent.
InsideExtent(p, c) == ~DLess(c, DNeg(GridHalfSize(p))) /\ ~DGreater(c, GridHalfSize(p))

\* C9: the index of a sample coordinate is its scaled value truncated toward
\* zero: the floor for a coordinate inside the grid extent, but 0 and not -1
\* for a coordinate below -grid_world_size/2 by less than one voxel width,
\* whose scaled value lies in (-1, 0).
C9_IndexIsTruncation ==
    (pc # "idle" /\ i > 0) =>
        \A a \in 1..3 :
          LET c == cell.point[a]
              s == Scaled(params, c)
          IN  IsFinite(c) =>
                /\ LastIndex[a] = TruncDiv(s[1], s[2])
                /\ InsideExtent(params, c) => LastIndex[a] = FloorDiv(s[1], s[2])
                /\ JustBelowGrid(params, c) =>
                     /\ DLess(s, R(0)) /\ DGreater(s, R(-1))
                     /\ LastIndex[a] = 0
                     /\ FloorDiv(s[1], s[2]) = -1

\* The loop body has just written a voxel for a sample with a coordinate
\* just below the grid.
C9_Witness ==
    /\ pc # "idle" /\ i > 0 /\ cell.wrote
    /\ \E a \in 1..3 : IsFinite(cell.point[a]) /\ JustBelowGrid(params, cell.point[a])

----------------------------------------------------------------------------
(* C10 *)

DMaxOf(S) == CHOOSE x \in S : \A y \in S : ~DLess(x, y)

DMinOf(S) == CHOOSE x \in S : \A y \in S : ~DGreater(x, y)

\* The ray origin + t * dir, 0 <= t <= t_max, is inside voxel v (low faces
\* included, as the index mapping includes them) over a t interval of
\* positive length.
Crosses(p, origin, dir, v) ==
    LET lo(a)   == LowFace(p, v[a])
        hi(a)   == LowFace(p, v[a] + 1)
        moving  == {a \in 1..3 : dir[a] # R(0)}
        tin(a)  == IF DGreater(dir[a], R(0)) THEN DDiv(DSub(lo(a), origin[a]), dir[a])
                   ELSE DDiv(DSub(hi(a), origin[a]), dir[a])
        tout(a) == IF DGreater(dir[a], R(0)) THEN DDiv(DSub(hi(a), origin[a]), dir[a])
                   ELSE DDiv(DSub(lo(a), origin[a]), dir[a])
    IN  /\ \A a \in (1..3) \ moving :
             ~DLess(origin[a], lo(a)) /\ DLess(origin[a], hi(a))
        /\ DLess(DMaxOf({R(0)} \cup {tin(a) : a \in moving}),
                 DMinOf({TMax(p)} \cup {tout(a) : a \in moving}))

Lower(m, n) == IF m < n THEN m ELSE n

Upper(m, n) == IF m > n THEN m ELSE n

\* The voxels of the grid between the voxels of two points, on every axis.
Box(u, w, grid_size) ==
    { <<x, y, z>> : x \in Upper(0, Lower(u[1], w[1])) .. Lower(grid_size - 1, Upper(u[1], w[1])),
                    y \in Upper(0, Lower(u[2], w[2])) .. Lower(grid_size - 1, Upper(u[2], w[2])),
                    z \in Upper(0, Lower(u[3], w[3])) .. Lower(grid_size - 1, Upper(u[3], w[3])) }

\* The voxels of the grid that the ray segment from the camera to t_max
\* crosses: each lies between two consecutive points i * step_size, i = 0..500.
CrossedVoxels ==
    LET P == [k \in 0..500 |-> SampleVoxel(params, ray_origin, ray_world_dir, k, build)]
    IN  { v \in UNION { Box(P[k], P[k + 1], params.grid_size) : k \in 0..499 } :
            Crosses(params, ray_origin, ray_world_dir, v) }

CameraInside(p) ==
    \A a \in 1..3 : /\ ~DLess(p.cam_pos[a], DNeg(GridHalfSize(p)))
                    /\ DLess(p.cam_pos[a], GridHalfSize(p))

\* C10: for a camera inside the grid, every voxel that the ray segment from
\* the camera to t_max crosses inside the grid is incremented at least once
\* by the call.
C10_EveryCrossedVoxelMarked ==
    (pc = "done" /\ CameraInside(params) /\ FiniteVec(ray_world_dir)) =>
        \A v \in CrossedVoxels :
            v \in DOMAIN voxel_grid /\ voxel_grid[v] > Cell(grid_before, v)

====
